---------------------------- MODULE Spec2Model ----------------------------
(***************************************************************************)
(* Model of the terminal kanban board (src/src/board.py, models.py).       *)
(*                                                                         *)
(* Python Task objects are mutable and are held by reference in the three  *)
(* column lists, and list.remove(x) removes the first element that IS x or *)
(* is == x (the dataclass compares all five fields).  The model therefore  *)
(* keeps a heap of task objects (heap[oid]) and column lists of object     *)
(* references (oids), so that two references to one object, and two        *)
(* objects with equal fields, are both representable.                      *)
(*                                                                         *)
(* Encoding of Python values:                                              *)
(*   Optional[str] timestamps : None = -1, "" = 0, an ISO timestamp = its  *)
(*                              rank 1..MaxTime (ISO strings of one format *)
(*                              compare as their instants do)              *)
(*   raw 'id' of a load record: an int, or NoId (absent / not an int)      *)
(*   str                      : the sequence of its characters             *)
(*   raw 'title' of a record  : a str, or TitleNone (absent / None)        *)
(***************************************************************************)
EXTENDS Integers, Sequences, FiniteSets, TLC

\* ------------------------------------------------------------------ bounds
\* Most task entries a board holds in the model.
MaxTasks == 2

\* Number of distinct instants datetime.now() can return.
MaxTime == 2

\* Most records in a load input, and the largest id a record supplies.
MaxLoad == MaxTasks

MaxLoadId == MaxTasks

\* add_task is not called once _next_id has reached this value.
MaxNextId == MaxTasks + 1

\* Longest title, in characters, among the titles drawn letter by letter, and
\* the length of the one long word.
MaxTitleLen == 4

LongWordLen == 20

\* Widest column handed to _wrap_task and widest terminal.
MaxColWidth == 24

MaxTermWidth == 80

\* --------------------------------------------------------------- constants
STATUSES == <<"todo", "in-progress", "done">>

StatusSet == {STATUSES[i] : i \in 1..Len(STATUSES)}

None == -1

EmptyStr == 0

NoId == -1

TitleNone == <<"<None>">>

Titles == {<<"a">>, <<"b">>}

Times == 1..MaxTime

\* Status strings a caller may pass: the three known ones and an unknown one.
StatusInputs == StatusSet \cup {"bogus"}

Oids == 1..MaxTasks

\* A heap slot no list refers to.
FreeTask == [id |-> 0, title |-> <<>>, status |-> "free", completion_date |-> None, created_at |-> None]

\* Python truthiness of an Optional[str]: None and "" are falsy.
Falsy(x) == x = None \/ x = EmptyStr

\* models.py Task(id, title, status, completion_date, created_at)
Task(id, title, status, completion_date, created_at) ==
  [id |-> id, title |-> title, status |-> status,
   completion_date |-> completion_date, created_at |-> created_at]

\* ----------------------------------------------------------------- helpers
RemoveAt(s, i) == [j \in 1..(Len(s) - 1) |-> IF j < i THEN s[j] ELSE s[j + 1]]

MaxOf(S) == CHOOSE m \in S : \A x \in S : x <= m

MinOf(S) == CHOOSE m \in S : \A x \in S : m <= x

\* str(raw_title) on a title that is already a str returns it unchanged.
Str(t) == t

\* columns, heap, next_id: the Board object.  tasks_dict: the mapping the
\* command loop holds (cli.py run), the one last loaded from or saved to disk.
VARIABLES columns, heap, next_id, tasks_dict

vars == <<columns, heap, next_id, tasks_dict>>

\* The Board object: what the methods below read and write through self.
Self == [columns |-> columns, heap |-> heap, next_id |-> next_id]

\* ------------------------------------------------------------------ queries
\* Board.all_tasks: todo + in-progress + done, as object references.
AllTasksOf(cols) == cols["todo"] \o cols["in-progress"] \o cols["done"]

all_tasks == AllTasksOf(columns)

\* The objects some column refers to.
OnBoardOf(cols) == {AllTasksOf(cols)[i] : i \in 1..Len(AllTasksOf(cols))}

OnBoard == OnBoardOf(columns)

\* list.remove(x): index of the first element that is x or equals x; 0 if none
\* (Python raises ValueError).
RemoveIndex(lst, oid, h) ==
  LET hits == {i \in 1..Len(lst) : lst[i] = oid \/ h[lst[i]] = h[oid]}
  IN IF hits = {} THEN 0 ELSE MinOf(hits)

\* ----------------------------------------------------- loading / migration
\* A load input is the mapping tasks_dict flattened in iteration order: a
\* sequence of raw records, each tagged with the dict key it is listed under.
RawRecord(key, id, title, completion_date, created_at) ==
  [key |-> key, id |-> id, title |-> title, status |-> key,
   completion_date |-> completion_date, created_at |-> created_at]

\* The key taken as it is, without the legacy migration.
MappedStatusNoLegacy(status) == status

\* board.py 30: the legacy key doing is read as in-progress.
MappedStatus(status) == IF status = "doing" THEN "in-progress" ELSE status

RECURSIVE Collect(_, _, _, _)
\* The loop of _load_from_dict over the records from position i on: the
\* collected tasks and the value of _next_id when the loop ends.
Collect(entries, i, nid, acc) ==
  IF i > Len(entries) THEN [collected |-> acc, next_id |-> nid]
  ELSE
    LET raw == entries[i]
        mapped_status == MappedStatus(raw.key)
    IN IF mapped_status \notin StatusSet THEN Collect(entries, i + 1, nid, acc)
       ELSE IF raw.title = TitleNone THEN Collect(entries, i + 1, nid, acc)
       ELSE
         LET isint == raw.id # NoId
             assigned_id == IF isint THEN raw.id ELSE nid
             nid2 == IF isint THEN nid ELSE nid + 1
             task == Task(assigned_id, Str(raw.title), mapped_status,
                          raw.completion_date, raw.created_at)
         IN Collect(entries, i + 1, nid2, Append(acc, task))

\* _next_id without the reconciliation of lines 51-52.
NextIdUnreconciled(collected, nid) == nid

\* _next_id set to one past the number of tasks collected.
NextIdAfterLoadCount(collected, nid) == Len(collected) + 1

\* _next_id after the loop (board.py 51-52): one past the largest id collected.
NextIdAfterLoad(collected, nid) ==
  IF collected # <<>>
  THEN MaxOf({collected[k].id : k \in 1..Len(collected)}) + 1
  ELSE nid

\* Board.__init__ + _load_from_dict: the board built from a load input.  The
\* k-th collected task becomes object k; heap is the sequence of the objects.
LoadFromDict(entries) ==
  LET c == Collect(entries, 1, 1, <<>>)
      collected == c.collected
      n == Len(collected)
      RECURSIVE ColOf(_, _)
      ColOf(s, k) == IF k > n THEN <<>>
                     ELSE IF collected[k].status = s THEN <<k>> \o ColOf(s, k + 1)
                     ELSE ColOf(s, k + 1)
  IN [columns |-> [s \in StatusSet |-> ColOf(s, 1)],
      heap |-> collected,
      next_id |-> NextIdAfterLoad(collected, c.next_id)]

\* The keys a persisted mapping may carry: the three statuses, the legacy key
\* and a key the board does not know.
LoadKeys == StatusSet \cup {"doing", "archive"}

RawRecords ==
  {RawRecord(k, id, t, cd, ca) :
     k \in LoadKeys, id \in {NoId} \cup (1..MaxLoadId), t \in {TitleNone} \cup Titles,
     cd \in {None, EmptyStr, 1}, ca \in {None, 1}}

\* A mapping has each key once, so the records of one key are contiguous.
KeysContiguous(entries) ==
  \A i, j \in 1..Len(entries) :
    (i < j /\ entries[i].key = entries[j].key) =>
      \A k \in i..j : entries[k].key = entries[i].key

LoadInputs ==
  {e \in UNION {[1..n -> RawRecords] : n \in 0..MaxLoad} : KeysContiguous(e)}

\* The heap of a freshly loaded board, padded with free slots.
PadHeap(h) == [o \in Oids |-> IF o <= Len(h) THEN h[o] ELSE FreeTask]

\* A caller of the Board API alone keeps no mapping.
NotKept == <<>>

InitFrom(inputs) ==
  \E d \in inputs :
    LET b == LoadFromDict(d)
    IN /\ columns = b.columns
       /\ heap = PadHeap(b.heap)
       /\ next_id = b.next_id
       /\ tasks_dict = NotKept

Init == InitFrom(LoadInputs)

\* Reference counting: an object no column refers to any more is gone.
Reclaim(h, cols) == [o \in Oids |-> IF o \in OnBoardOf(cols) THEN h[o] ELSE FreeTask]

\* A method call returns an outcome and leaves the board in some state.
Return(outcome, self) == [result |-> outcome, self |-> self]

\* ----------------------------------------------------------- id management
\* _allocate_id that hands out the id but does not advance the counter.
AllocateIdNoAdvance(nid) == [id |-> nid, next_id |-> nid]

\* Board._allocate_id
AllocateId(nid) == [id |-> nid, next_id |-> nid + 1]

\* The sort key of renumber_sequential: (t.created_at or '', t.id).
SortKey(t) == <<IF Falsy(t.created_at) THEN EmptyStr ELSE t.created_at, t.id>>

\* The comparison of a descending sort.
KeyGreater(a, b) == a[1] > b[1] \/ (a[1] = b[1] /\ a[2] > b[2])

\* Tuple comparison a < b on sort keys.
KeyLess(a, b) == a[1] < b[1] \/ (a[1] = b[1] /\ a[2] < b[2])

RECURSIVE InsertSorted(_, _, _)
\* Insert reference o after every element whose key is not greater (stable).
InsertSorted(sorted, o, h) ==
  IF sorted = <<>> THEN <<o>>
  ELSE IF KeyLess(SortKey(h[o]), SortKey(h[Head(sorted)]))
       THEN <<o>> \o sorted
       ELSE <<Head(sorted)>> \o InsertSorted(Tail(sorted), o, h)

RECURSIVE StableSort(_, _, _)
\* list.sort(key=...): stable, ascending; the first k elements of lst sorted.
StableSort(lst, k, h) ==
  IF k = 0 THEN <<>> ELSE InsertSorted(StableSort(lst, k - 1, h), lst[k], h)

RECURSIVE AssignIds(_, _, _)
\* for new_id, task in enumerate(all_tasks, start=1): task.id = new_id
AssignIds(sorted, k, h) ==
  IF k > Len(sorted) THEN h
  ELSE AssignIds(sorted, k + 1, [h EXCEPT ![sorted[k]].id = k])

\* Board.renumber_sequential
renumber_sequential(self) ==
  LET all == AllTasksOf(self.columns)
      sorted == StableSort(all, Len(all), self.heap)
  IN Return("none", [self EXCEPT !.heap = AssignIds(sorted, 1, self.heap),
                                 !.next_id = Len(all) + 1])

\* --------------------------------------------------------- task operations
\* datetime.now().isoformat(): any instant of the clock.
Now == Times

\* The values created_at can have after add_task (board.py 80-81).
StampCreated(created_at) == IF Falsy(created_at) THEN Now ELSE {created_at}

\* Board.add_task(Task(id=0, title=title, created_at=created_at)): the new
\* object takes the first free slot of the heap.  One outcome per value the
\* clock can return.
add_task(self, title, created_at) ==
  LET oid == MinOf(Oids \ OnBoardOf(self.columns))
      a == AllocateId(self.next_id)
  IN {Return("none",
             [columns |-> [self.columns EXCEPT !["todo"] = Append(@, oid)],
              heap |-> [self.heap EXCEPT ![oid] = Task(a.id, title, "todo", None, stamped)],
              next_id |-> a.next_id]) :
        stamped \in StampCreated(created_at)}

\* A transition that never stamps.
StampNever(completion_date, new_status) == {completion_date}

\* A transition that stamps on every entry into done.
StampAlways(completion_date, new_status) ==
  IF new_status = "done" THEN Now ELSE {completion_date}

\* A transition that marks the entry into done with the empty string.
StampEmpty(completion_date, new_status) ==
  IF new_status = "done" /\ Falsy(completion_date) THEN {EmptyStr} ELSE {completion_date}

\* The values completion_date can have after a transition into new_status
\* (board.py 119-120): the clock is read only when the task enters done with
\* a falsy completion_date.
StampCompletion(completion_date, new_status) ==
  IF new_status = "done" /\ Falsy(completion_date) THEN Now ELSE {completion_date}

\* Lines 117-122 of _move_found_task: the task leaves the column of its
\* status (list.remove), takes the new status and perhaps a stamp, and is
\* appended to the new column.  One outcome per value the clock can return.
Transition(self, oid, new_status) ==
  LET cols == self.columns
      h == self.heap
      old == h[oid].status
      idx == RemoveIndex(cols[old], oid, h)
  IN IF idx = 0 THEN {Return("error", self)}
     ELSE
       LET cols1 == [cols EXCEPT ![old] = RemoveAt(@, idx)]
           cols2 == [cols1 EXCEPT ![new_status] = Append(@, oid)]
       IN {Return("moved",
                  [self EXCEPT !.columns = cols2,
                               !.heap = [h EXCEPT ![oid].status = new_status,
                                                  ![oid].completion_date = cd]]) :
             cd \in StampCompletion(h[oid].completion_date, new_status)}

\* _move_found_task without the already-in-status return.
MoveFoundTaskNoNoop(self, oid, new_status) ==
  IF new_status \notin StatusSet THEN {Return("invalid_status", self)}
  ELSE Transition(self, oid, new_status)

\* _move_found_task that takes the task out of its column before it finds
\* that the task already is in new_status.
MoveFoundTaskLateCheck(self, oid, new_status) ==
  IF new_status \notin StatusSet THEN {Return("invalid_status", self)}
  ELSE IF self.heap[oid].status = new_status
  THEN LET idx == RemoveIndex(self.columns[new_status], oid, self.heap)
       IN {Return("already", [self EXCEPT !.columns[new_status] = RemoveAt(@, idx)])}
  ELSE Transition(self, oid, new_status)

\* Board._move_found_task on the located object: the outcomes it can have,
\* each with the board it leaves.
MoveFoundTask(self, oid, new_status) ==
  IF new_status \notin StatusSet THEN {Return("invalid_status", self)}
  ELSE IF self.heap[oid].status = new_status THEN {Return("already", self)}
  ELSE Transition(self, oid, new_status)

\* Position in lst of the first object satisfying the test; 0 if none.
FirstByTitle(lst, title, h) ==
  LET hits == {i \in 1..Len(lst) : h[lst[i]].title = title}
  IN IF hits = {} THEN 0 ELSE MinOf(hits)

FirstById(lst, id, h) ==
  LET hits == {i \in 1..Len(lst) : h[lst[i]].id = id}
  IN IF hits = {} THEN 0 ELSE MinOf(hits)

\* Board.move_task(task_title, new_status) (by title)
move_task(self, task_title, new_status) ==
  LET all == AllTasksOf(self.columns)
      i == FirstByTitle(all, task_title, self.heap)
  IN IF i = 0 THEN {Return("not_found", self)}
     ELSE MoveFoundTask(self, all[i], new_status)

\* Board.move_task_by_index(current_status, task_number, new_status)
move_task_by_index(self, current_status, task_number, new_status) ==
  IF current_status \notin StatusSet THEN {Return("invalid_current", self)}
  ELSE IF new_status \notin StatusSet THEN {Return("invalid_new", self)}
  ELSE
    LET idx == task_number - 1
        tasks_list == self.columns[current_status]
    IN IF idx < 0 \/ idx >= Len(tasks_list) THEN {Return("not_found", self)}
       ELSE MoveFoundTask(self, tasks_list[idx + 1], new_status)

\* Board.move_task_by_id(task_id, new_status)
move_task_by_id(self, task_id, new_status) ==
  LET all == AllTasksOf(self.columns)
      i == FirstById(all, task_id, self.heap)
  IN IF new_status \notin StatusSet THEN {Return("invalid_status", self)}
     ELSE IF i = 0 THEN {Return("not_found", self)}
     ELSE MoveFoundTask(self, all[i], new_status)

\* A scan that removes the last match instead of the first.
RemoveLast(self, matching) ==
  LET cols == self.columns
      cands == {s \in 1..Len(STATUSES) :
                  \E i \in 1..Len(cols[STATUSES[s]]) : cols[STATUSES[s]][i] \in matching}
  IN IF cands = {} THEN Return("not_found", self)
     ELSE
       LET status == STATUSES[MaxOf(cands)]
           tasks == cols[status]
           i == MaxOf({j \in 1..Len(tasks) : tasks[j] \in matching})
       IN Return("removed", [self EXCEPT !.columns[status] = RemoveAt(@, i)])

\* The scan of remove_task / remove_task_by_id over the objects that match:
\* columns in dict order, each column top to bottom; the first match is
\* removed with list.remove.
RemoveFirst(self, matching) ==
  LET cols == self.columns
      cands == {s \in 1..Len(STATUSES) :
                  \E i \in 1..Len(cols[STATUSES[s]]) : cols[STATUSES[s]][i] \in matching}
  IN IF cands = {} THEN Return("not_found", self)
     ELSE
       LET status == STATUSES[MinOf(cands)]
           tasks == cols[status]
           i == MinOf({j \in 1..Len(tasks) : tasks[j] \in matching})
           idx == RemoveIndex(tasks, tasks[i], self.heap)
       IN Return("removed", [self EXCEPT !.columns[status] = RemoveAt(@, idx)])

\* Board.remove_task(task_title)
remove_task(self, task_title) ==
  RemoveFirst(self, {o \in Oids : self.heap[o].title = task_title})

\* Board.remove_task_by_id(task_id)
remove_task_by_id(self, task_id) ==
  RemoveFirst(self, {o \in Oids : self.heap[o].id = task_id})

\* ------------------------------------------------------------ serialization
\* Board.get_tasks: per column, the records of its tasks in order.
GetTasks(cols, h) ==
  [s \in StatusSet |->
     [i \in 1..Len(cols[s]) |->
        [id |-> h[cols[s][i]].id, title |-> h[cols[s][i]].title,
         status |-> h[cols[s][i]].status,
         completion_date |-> h[cols[s][i]].completion_date,
         created_at |-> h[cols[s][i]].created_at]]]

\* The exported mapping as a load input: its items in dict order, each record
\* tagged with the key it is listed under.
RECURSIVE ItemsFrom(_, _)
ItemsFrom(data, k) ==
  IF k > Len(STATUSES) THEN <<>>
  ELSE [i \in 1..Len(data[STATUSES[k]]) |->
          [key |-> STATUSES[k], id |-> data[STATUSES[k]][i].id,
           title |-> data[STATUSES[k]][i].title,
           status |-> data[STATUSES[k]][i].status,
           completion_date |-> data[STATUSES[k]][i].completion_date,
           created_at |-> data[STATUSES[k]][i].created_at]]
       \o ItemsFrom(data, k + 1)

Items(data) == ItemsFrom(data, 1)

\* The tasks of column s of a board, as values, top to bottom.
ColumnTasks(cols, h, s) == [i \in 1..Len(cols[s]) |-> h[cols[s][i]]]

\* -------------------------------------------------------------------- text
\* n copies of the character c.
Rep(c, n) == [i \in 1..n |-> c]

DigitChars == <<"0", "1", "2", "3", "4", "5", "6", "7", "8", "9">>

RECURSIVE IntToStr(_)
\* str(n) of an int, as f"{task.id}" formats it.
IntToStr(n) ==
  IF n < 0 THEN <<"-">> \o IntToStr(-n)
  ELSE IF n < 10 THEN <<DigitChars[n + 1]>>
  ELSE IntToStr(n \div 10) \o <<DigitChars[(n % 10) + 1]>>

RECURSIVE SplitFrom(_, _, _)
\* The words of s from position i on; cur is the word being read.
SplitFrom(s, i, cur) ==
  IF i > Len(s) THEN (IF cur = <<>> THEN <<>> ELSE <<cur>>)
  ELSE IF s[i] = " "
       THEN (IF cur = <<>> THEN SplitFrom(s, i + 1, <<>>)
             ELSE <<cur>> \o SplitFrom(s, i + 1, <<>>))
       ELSE SplitFrom(s, i + 1, Append(cur, s[i]))

\* str.split(): the maximal runs of non-blank characters.
Split(s) == SplitFrom(s, 1, <<>>)

\* str.strip()
Strip(s) ==
  LET keep == {i \in 1..Len(s) : s[i] # " "}
  IN IF keep = {} THEN <<>> ELSE SubSeq(s, MinOf(keep), MaxOf(keep))

\* s.split(c)[0]: s up to the first c.
BeforeFirst(s, c) ==
  LET hits == {i \in 1..Len(s) : s[i] = c}
  IN IF hits = {} THEN s ELSE SubSeq(s, 1, MinOf(hits) - 1)

\* s.endswith(t)
EndsWith(s, t) ==
  Len(t) <= Len(s) /\ SubSeq(s, Len(s) - Len(t) + 1, Len(s)) = t

\* datetime.isoformat() of instant t: a date, "T", a time of day.
IsoFormat(t) ==
  <<"2", "0", "2", "4", "-", "0", "1", "-", "0">> \o IntToStr(t)
  \o <<"T", "1", "0", ":", "0", "0", ":", "0", "0">>

\* ------------------------------------------------------------------- theme
\* An ANSI escape sequence is one element of a decorated string.
RESET == "ESC[0m"

BOLD == "ESC[1m"

PRIMARY == "ESC[primary"

STATUS_COLOR ==
  [s \in StatusSet |->
     CASE s = "todo" -> <<"ESC[todo">>
       [] s = "in-progress" -> <<"ESC[in-progress">>
       [] s = "done" -> <<"ESC[done">>]

ID_COLOR == <<PRIMARY, BOLD>>

EscCodes == {RESET, BOLD, PRIMARY} \cup {STATUS_COLOR[s][1] : s \in StatusSet}

\* theme.color(text, *styles); enable is theme._ENABLE.
color(text, styles, enable) ==
  IF ~enable THEN text ELSE styles \o text \o <<RESET>>

\* Board._visible_len: the length once the escape sequences are stripped.
VisibleLen(s) ==
  LET Shown(c) == c \notin EscCodes
  IN Len(SelectSeq(s, Shown))

\* ----------------------------------------------------------------- display
MIN_COL_WIDTH == 18

SEP == <<" ", "|", " ">>

HEADER_TITLES ==
  [s \in StatusSet |->
     CASE s = "todo" -> <<"T", "O", " ", "D", "O">>
       [] s = "in-progress" -> <<"I", "N", "-", "P", "R", "O", "G", "R", "E", "S", "S">>
       [] s = "done" -> <<"D", "O", "N", "E">>]

Untitled == <<"<", "u", "n", "t", "i", "t", "l", "e", "d", ">">>

EmptyLine == <<"<", "e", "m", "p", "t", "y", ">">>

\* " (V day)" where V stands for the check mark U+2713.
DoneSuffix(day) == <<" ", "(", "V", " ">> \o day \o <<")">>

\* Board._task_segments
TaskSegments(task, enable) ==
  LET has_suffix == task.status = "done" /\ ~Falsy(task.completion_date)
      done_suffix == IF has_suffix
                     THEN DoneSuffix(BeforeFirst(IsoFormat(task.completion_date), "T"))
                     ELSE <<>>
  IN [prefix_visible |-> IntToStr(task.id) \o <<".", " ">>,
      prefix_colored |-> color(IntToStr(task.id) \o <<".">>, ID_COLOR \o <<BOLD>>, enable)
                         \o <<" ">>,
      title_text |-> IF task.title # <<>> THEN task.title ELSE Untitled,
      status_col |-> IF task.status \in StatusSet THEN STATUS_COLOR[task.status] ELSE <<>>,
      done_suffix |-> done_suffix,
      done_suffix_colored |-> IF has_suffix
                              THEN color(done_suffix, STATUS_COLOR["done"], enable)
                              ELSE <<>>]

RECURSIVE WrapWords(_, _, _, _, _, _)
\* The loop over the title's words (board.py 227-236) from word k on.
WrapWords(words, k, current, first, lines_raw, limits) ==
  IF k > Len(words) THEN [current |-> current, lines_raw |-> lines_raw]
  ELSE
    LET w == words[k]
        limit == IF first THEN limits.first ELSE limits.other
        candidate == IF current = <<>> THEN w ELSE current \o <<" ">> \o w
    IN IF Len(candidate) <= limit
       THEN WrapWords(words, k + 1, candidate, first, lines_raw, limits)
       ELSE WrapWords(words, k + 1, w, FALSE,
                      IF current # <<>> THEN Append(lines_raw, current) ELSE lines_raw,
                      limits)

\* Lines 240-246: the done suffix goes onto the last line if it fits, else on
\* a line of its own.  lines_raw[-1] = ... on an empty list raises IndexError.
PlaceSuffix(lines_raw, done_suffix, limits) ==
  IF done_suffix = <<>> THEN [error |-> "none", lines_raw |-> lines_raw]
  ELSE
    LET last == IF lines_raw # <<>> THEN lines_raw[Len(lines_raw)] ELSE <<>>
        limit == IF Len(lines_raw) = 1 THEN limits.first ELSE limits.other
    IN IF Len(last) + Len(done_suffix) <= limit
       THEN IF lines_raw = <<>>
            THEN [error |-> "IndexError", lines_raw |-> lines_raw]
            ELSE [error |-> "none",
                  lines_raw |-> [lines_raw EXCEPT ![Len(lines_raw)] = last \o done_suffix]]
       ELSE [error |-> "none", lines_raw |-> Append(lines_raw, Strip(done_suffix))]

\* Lines 248-265: the decorated line made of raw line idx (0-based).
ColorLine(idx, raw_line, seg, enable) ==
  LET lead == IF idx = 0 THEN seg.prefix_colored
              ELSE Rep(" ", Len(seg.prefix_visible))
      done_suffix == seg.done_suffix
  IN IF done_suffix # <<>> /\ EndsWith(raw_line, done_suffix)
        /\ raw_line # Strip(done_suffix)
     THEN lead \o color(SubSeq(raw_line, 1, Len(raw_line) - Len(done_suffix)),
                        seg.status_col, enable)
          \o seg.done_suffix_colored
     ELSE IF done_suffix # <<>> /\ raw_line = Strip(done_suffix)
     THEN lead \o seg.done_suffix_colored
     ELSE lead \o color(raw_line, seg.status_col, enable)

\* Board._wrap_task: the decorated lines of one task, or the exception raised.
WrapTask(task, col_width, enable) ==
  LET seg == TaskSegments(task, enable)
      words == Split(seg.title_text)
      prefix_space == Len(seg.prefix_visible)
      limits == [first |-> IF col_width - prefix_space > 1 THEN col_width - prefix_space ELSE 1,
                 other |-> IF col_width - prefix_space > 1 THEN col_width - prefix_space ELSE 1]
      looped == WrapWords(words, 1, <<>>, TRUE, <<>>, limits)
      lines1 == IF looped.current # <<>> THEN Append(looped.lines_raw, looped.current)
                ELSE looped.lines_raw
      placed == PlaceSuffix(lines1, seg.done_suffix, limits)
      colored == [i \in 1..Len(placed.lines_raw) |->
                    ColorLine(i - 1, placed.lines_raw[i], seg, enable)]
  IN IF placed.error # "none" THEN [error |-> placed.error, lines |-> <<>>]
     ELSE [error |-> "none",
           lines |-> IF colored # <<>> THEN colored
                     ELSE <<seg.prefix_colored \o color(EmptyLine, seg.status_col, enable)>>]

\* ---- width calculation ----
SumWidths(widths) == widths["todo"] + widths["in-progress"] + widths["done"]

\* The length one column would like: its header, or its longest task on one
\* line, and at least MIN_COL_WIDTH (board.py 165-172).
Desired(self, status) ==
  LET tasks == self.columns[status]
      Candidate(t) == LET seg == TaskSegments(t, FALSE)
                      IN Len(seg.prefix_visible) + Len(seg.title_text) + Len(seg.done_suffix)
      longest == MaxOf({Len(HEADER_TITLES[status])}
                       \cup {Candidate(self.heap[tasks[i]]) : i \in 1..Len(tasks)})
  IN IF longest > MIN_COL_WIDTH THEN longest ELSE MIN_COL_WIDTH

\* The last of the widest columns.
WidestLast(widths) ==
  STATUSES[MaxOf({i \in 1..Len(STATUSES) :
                    \A j \in 1..Len(STATUSES) : widths[STATUSES[j]] <= widths[STATUSES[i]]})]

\* max(STATUSES, key=lambda s: widths[s]): the first of the widest columns.
Widest(widths) ==
  STATUSES[MinOf({i \in 1..Len(STATUSES) :
                    \A j \in 1..Len(STATUSES) : widths[STATUSES[j]] <= widths[STATUSES[i]]})]

\* A target that leaves no room for the separators.
TargetSpaceNoSep(term_width, sep_total) ==
  IF term_width > Len(STATUSES) * MIN_COL_WIDTH
  THEN term_width ELSE Len(STATUSES) * MIN_COL_WIDTH

\* target_space of line 176.
TargetSpace(term_width, sep_total) ==
  IF term_width - sep_total > Len(STATUSES) * MIN_COL_WIDTH
  THEN term_width - sep_total ELSE Len(STATUSES) * MIN_COL_WIDTH

RECURSIVE Shrink(_, _)
\* The while loop of lines 177-181.
Shrink(widths, target_space) ==
  IF SumWidths(widths) > target_space
  THEN LET widest == Widest(widths)
       IN IF widths[widest] <= MIN_COL_WIDTH THEN widths
          ELSE Shrink([widths EXCEPT ![widest] = @ - 1], target_space)
  ELSE widths

RECURSIVE DistributeFromLast(_, _, _)
\* A round robin that starts with the last column.
DistributeFromLast(widths, extra, i) ==
  IF extra > 0
  THEN DistributeFromLast(
         [widths EXCEPT ![STATUSES[Len(STATUSES) - (i % Len(STATUSES))]] = @ + 1],
         extra - 1, i + 1)
  ELSE widths

RECURSIVE Distribute(_, _, _)
\* The while loop of lines 185-188.
Distribute(widths, extra, i) ==
  IF extra > 0
  THEN Distribute([widths EXCEPT ![STATUSES[(i % Len(STATUSES)) + 1]] = @ + 1],
                  extra - 1, i + 1)
  ELSE widths

\* Board._compute_column_widths
ComputeColumnWidths(self, term_width) ==
  LET sep_total == Len(SEP) * (Len(STATUSES) - 1)
      desired == [s \in StatusSet |-> Desired(self, s)]
      total == SumWidths(desired) + sep_total
  IN IF total > term_width
     THEN Shrink(desired, TargetSpace(term_width, sep_total))
     ELSE Distribute(desired, term_width - total, 0)

\* ------------------------------------------------------------ the callers
TitleInputs == Titles

CreatedInputs == {None, EmptyStr, 1}

IndexInputs == 0..MaxTasks

IdInputs == 1..MaxNextId

\* The board after a call that returned r.
Apply(r) ==
  /\ columns' = r.self.columns
  /\ heap' = Reclaim(r.self.heap, r.self.columns)
  /\ next_id' = r.self.next_id
  /\ UNCHANGED tasks_dict

\* The model stops adding on a full board and at the id cap.
CanAdd == Len(all_tasks) < MaxTasks /\ next_id < MaxNextId

AddTask ==
  \E title \in TitleInputs, created_at \in CreatedInputs :
    /\ CanAdd
    /\ \E r \in add_task(Self, title, created_at) : Apply(r)

MoveTask ==
  \E task_title \in TitleInputs, new_status \in StatusInputs :
    \E r \in move_task(Self, task_title, new_status) : Apply(r)

MoveTaskByIndex ==
  \E current_status \in StatusInputs, task_number \in IndexInputs,
     new_status \in StatusInputs :
    \E r \in move_task_by_index(Self, current_status, task_number, new_status) : Apply(r)

MoveTaskById ==
  \E task_id \in IdInputs, new_status \in StatusInputs :
    \E r \in move_task_by_id(Self, task_id, new_status) : Apply(r)

RemoveTask ==
  \E task_title \in TitleInputs : Apply(remove_task(Self, task_title))

RemoveTaskById ==
  \E task_id \in IdInputs : Apply(remove_task_by_id(Self, task_id))

Renumber == Apply(renumber_sequential(Self))

Next ==
  \/ AddTask
  \/ MoveTask
  \/ MoveTaskByIndex
  \/ MoveTaskById
  \/ RemoveTask
  \/ RemoveTaskById
  \/ Renumber

Spec == Init /\ [][Next]_vars

\* Load inputs in which every record supplies an integer id and no two
\* records supply the same one (the empty input among them).
DistinctIdInputs ==
  {e \in LoadInputs :
     /\ \A i \in 1..Len(e) : e[i].id # NoId
     /\ \A i, j \in 1..Len(e) : i # j => e[i].id # e[j].id}

InitDistinct == InitFrom(DistinctIdInputs)

\* add, move and remove only.
NextAMR ==
  \/ AddTask
  \/ MoveTask
  \/ MoveTaskByIndex
  \/ MoveTaskById
  \/ RemoveTask
  \/ RemoveTaskById

SpecDistinct == InitDistinct /\ [][NextAMR]_vars

\* Board(): no mapping is given and nothing is loaded.
InitEmpty == InitFrom({<<>>})

\* Every board operation on a board that started empty.
SpecEmpty == InitEmpty /\ [][Next]_vars

\* ---- the board on screen ----
\* Titles as they can stand in a persisted record: every text of letters and
\* blanks up to MaxTitleLen (the empty and the blank ones among them), and
\* one long word.
DisplayTitles ==
  UNION {[1..k -> {"x", " "}] : k \in 0..MaxTitleLen} \cup {Rep("x", LongWordLen)}

\* Ids of one, two and three digits.
DisplayIds == {1, 10, 100}

DisplayRecords ==
  {RawRecord(k, id, t, cd, None) :
     k \in StatusSet, id \in DisplayIds, t \in DisplayTitles, cd \in {None, 1}}

DisplayInputs == {<<>>} \cup {<<r>> : r \in DisplayRecords}

InitDisplay == InitFrom(DisplayInputs)

\* The board operations on a board loaded from such a record; display() reads
\* the board and changes nothing.
SpecDisplay == InitDisplay /\ [][Next]_vars

\* Widths display() can pass: shutil.get_terminal_size gives a positive count.
TermWidths == 1..MaxTermWidth

ColWidths == 1..MaxColWidth

\* ------------------------------------------------------------- persistence
\* storage._is_old: a completion date more than a week before now.  The
\* instants of the model lie more than a week apart, so any earlier instant
\* is more than a week earlier.
IsOld(task, now) ==
  IF Falsy(task.completion_date) THEN FALSE ELSE now - task.completion_date > 0

\* A cleaning that drops the stale done records and renumbers nothing.
CleanDoneTasksNoRenumber(data, now) ==
  LET Fresh(task) == ~IsOld(task, now)
      pruned == [data EXCEPT !["done"] = SelectSeq(@, Fresh)]
      board == LoadFromDict(Items(pruned))
  IN GetTasks(board.columns, board.heap)

\* Storage.clean_done_tasks on the mapping get_tasks returned: the stale done
\* records dropped, the rest loaded into a new Board, that board renumbered
\* and exported.
CleanDoneTasks(data, now) ==
  LET Fresh(task) == ~IsOld(task, now)
      pruned == [data EXCEPT !["done"] = SelectSeq(@, Fresh)]
      board == LoadFromDict(Items(pruned))
      renumbered == renumber_sequential(board).self
  IN GetTasks(renumbered.columns, renumbered.heap)

\* cli.py 89-91: what the command loop saves for a board, as a load input.
Persist(self, now) == Items(CleanDoneTasks(GetTasks(self.columns, self.heap), now))

\* --------------------------------------------------------------------- cli
Uppers == <<"A", "B", "D", "E", "I", "M", "N", "O", "P", "R", "T", "V", "X">>

Lowers == <<"a", "b", "d", "e", "i", "m", "n", "o", "p", "r", "t", "v", "x">>

\* str.lower()
Lower(s) ==
  [i \in 1..Len(s) |->
     IF \E k \in 1..Len(Uppers) : Uppers[k] = s[i]
     THEN Lowers[CHOOSE k \in 1..Len(Uppers) : Uppers[k] = s[i]]
     ELSE s[i]]

\* str.isdigit(): not empty and digits only.
IsDigit(s) ==
  s # <<>> /\ \A i \in 1..Len(s) : \E d \in 1..Len(DigitChars) : DigitChars[d] = s[i]

RECURSIVE ParseInt(_)
\* int(s) of a string of digits.
ParseInt(s) ==
  IF s = <<>> THEN 0
  ELSE ParseInt(SubSeq(s, 1, Len(s) - 1)) * 10
       + (CHOOSE d \in 0..9 : DigitChars[d + 1] = s[Len(s)])

\* s.rstrip('.')
RStripDots(s) ==
  LET keep == {i \in 1..Len(s) : s[i] # "."}
  IN IF keep = {} THEN <<>> ELSE SubSeq(s, 1, MaxOf(keep))

RECURSIVE JoinWords(_)
\* ' '.join(words)
JoinWords(words) ==
  IF words = <<>> THEN <<>>
  ELSE IF Len(words) = 1 THEN words[1]
  ELSE words[1] \o <<" ">> \o JoinWords(Tail(words))

\* STATUS_ALIASES.get(word); NoStatus stands for None.
NoStatus == "<None>"

STATUS_ALIASES(word) ==
  CASE word = <<"t">> -> "todo"
    [] word = <<"t", "o", "d", "o">> -> "todo"
    [] word = <<"i", "p">> -> "in-progress"
    [] word = <<"i", "n", "-", "p", "r", "o", "g", "r", "e", "s", "s">> -> "in-progress"
    [] word = <<"d">> -> "done"
    [] word = <<"d", "o", "n", "e">> -> "done"
    [] OTHER -> NoStatus

\* The command words.
ADD == <<"a", "d", "d">>

MV == <<"m", "v">>

RM == <<"r", "m">>

REMOVE == <<"r", "e", "m", "o", "v", "e">>

MOVE == <<"m", "o", "v", "e">>

\* A check that lets every title through.
TitleNeverMissing(title) == FALSE

\* `if not title`: the stripped title is the empty string.
TitleMissing(title) == title = <<>>

\* CLI._add; typed is what the user enters at the prompt.
PromptAdd(self, typed) ==
  LET title == Strip(typed)
  IN IF TitleMissing(title) THEN {Return("title_required", self)}
     ELSE add_task(self, title, None)

\* CLI._cmd_add
CmdAdd(self, tokens, typed) ==
  IF Len(tokens) > 1
  THEN LET title == Strip(JoinWords(Tail(tokens)))
       IN IF TitleMissing(title) THEN {Return("title_required", self)}
          ELSE add_task(self, title, None)
  ELSE PromptAdd(self, typed)

\* CLI._cmd_mv
CmdMv(self, tokens) ==
  IF Len(tokens) # 3 THEN {Return("usage", self)}
  ELSE LET id_part == tokens[2]
           status_part == Lower(tokens[3])
           new_status == STATUS_ALIASES(status_part)
       IN IF ~IsDigit(id_part) THEN {Return("invalid_id", self)}
          ELSE IF new_status = NoStatus THEN {Return("invalid_status", self)}
          ELSE move_task_by_id(self, ParseInt(id_part), new_status)

\* CLI._cmd_rm
CmdRm(self, tokens) ==
  IF Len(tokens) # 2 THEN {Return("usage", self)}
  ELSE LET raw_id == RStripDots(tokens[2])
       IN IF ~IsDigit(raw_id) THEN {Return("invalid_id", self)}
          ELSE {remove_task_by_id(self, ParseInt(raw_id))}

\* CLI._move; typed_id and typed_status are the answers to its two prompts.
PromptMove(self, typed_id, typed_status) ==
  LET tid_raw == Strip(typed_id)
      new_status == STATUS_ALIASES(Lower(Strip(typed_status)))
  IN IF ~IsDigit(tid_raw) THEN {Return("invalid_id", self)}
     ELSE IF new_status = NoStatus THEN {Return("invalid_status", self)}
     ELSE move_task_by_id(self, ParseInt(tid_raw), new_status)

\* CLI._remove
PromptRemove(self, typed_id) ==
  LET tid_raw == Strip(typed_id)
  IN IF ~IsDigit(tid_raw) THEN {Return("invalid_id", self)}
     ELSE {remove_task_by_id(self, ParseInt(tid_raw))}

\* CLI._handle_command(line); answers are the lines the user enters at the
\* prompts the command opens, in order.
HandleCommand(self, line, answers) ==
  LET tokens == Split(line)
  IN IF tokens = <<>> THEN {Return("none", self)}
     ELSE
       LET cmd == Lower(tokens[1])
       IN CASE cmd = MV -> CmdMv(self, tokens)
            [] cmd = ADD -> CmdAdd(self, tokens, answers[1])
            [] cmd = RM -> CmdRm(self, tokens)
            [] cmd = REMOVE ->
                 IF Len(tokens) = 2 /\ IsDigit(tokens[2])
                 THEN {remove_task_by_id(self, ParseInt(tokens[2]))}
                 ELSE PromptRemove(self, answers[1])
            [] cmd = MOVE -> PromptMove(self, answers[1], answers[2])
            [] OTHER -> {Return("unknown", self)}

\* ---- the command loop ----
\* What the user can type: lines for each command, and answers to prompts.
TypedTitles == {<<>>, <<" ">>, <<"a">>, <<" ", "b", " ">>}

TypedIds == {IntToStr(id) : id \in IdInputs} \cup {<<"x">>}

TypedStatuses == {<<"t">>, <<"i", "p">>, <<"D">>, <<"x">>}

AddLines == {JoinWords(<<ADD, <<"a">>>>), JoinWords(<<<<"A", "d", "d">>, <<"b">>>>)}

MvLines ==
  {JoinWords(<<MV, i, s>>) : i \in TypedIds, s \in TypedStatuses}
  \cup {JoinWords(<<MV, <<"1">>>>)}

RmLines ==
  {JoinWords(<<RM, i>>) : i \in TypedIds}
  \cup {JoinWords(<<RM, <<"1", ".">>>>), RM}
  \cup {JoinWords(<<REMOVE, IntToStr(id)>>) : id \in IdInputs}

\* move takes no argument; its two prompts ask for the id and the status.
MoveAnswers ==
  {<<<<"1">>, <<"d">>>>, <<<<" ", "2">>, <<"T", " ">>>>, <<<<"1">>, <<"x">>>>,
   <<<<"x">>, <<"d">>>>, <<<<"3">>, <<"i", "p">>>>}

\* remove with no id, or with something that is no id, prompts for one.
RemovePromptLines == {REMOVE, JoinWords(<<REMOVE, <<"x">>>>)}

RemoveAnswers == {<<<<"1">>>>, <<<<" ", "2", " ">>>>, <<<<"x">>>>}

OtherLines == {<<"l", "s">>}

\* The mapping main() gets from Storage.load_tasks: records as the program
\* saved them or as a user edited them.
FileRecords ==
  {RawRecord(k, id, <<"a">>, cd, ca) :
     k \in StatusSet, id \in 1..MaxLoadId, cd \in {None, 1}, ca \in {None, 1}}

FileInputs == UNION {[1..n -> FileRecords] : n \in 0..MaxLoad}

\* main(): tasks = Storage.load_tasks(); board = Board(tasks)
InitFile(inputs) ==
  \E d \in inputs :
    LET b == LoadFromDict(d)
    IN /\ columns = b.columns
       /\ heap = PadHeap(b.heap)
       /\ next_id = b.next_id
       /\ tasks_dict = d

InitCLI == InitFile({e \in FileInputs : KeysContiguous(e)})

\* The title an add command is given, before it is stripped.
EnteredTitle(line, typed) ==
  LET tokens == Split(line)
  IN IF Len(tokens) > 1 THEN JoinWords(Tail(tokens)) ELSE typed

\* cli.py 71 and 87: the line is stripped and handled.
Run(self, raw_line, answers) == HandleCommand(self, Strip(raw_line), answers)

\* cli.py 88-91 after a command that returned r: the board is what the
\* handler left; its export, cleaned at instant now, is what is saved.
Saving(r, now) ==
  /\ columns' = r.self.columns
  /\ heap' = Reclaim(r.self.heap, r.self.columns)
  /\ next_id' = r.self.next_id
  /\ tasks_dict' = Persist(r.self, now)

RunAdd ==
  \E line \in AddLines :
    /\ CanAdd
    /\ \E r \in Run(Self, line, <<>>), now \in Now : Saving(r, now)

RunAddPrompt ==
  \E typed \in TypedTitles :
    /\ Strip(typed) # <<>> => CanAdd
    /\ \E r \in Run(Self, ADD, <<typed>>), now \in Now : Saving(r, now)

RunMv ==
  \E line \in MvLines :
    \E r \in Run(Self, line, <<>>), now \in Now : Saving(r, now)

RunRm ==
  \E line \in RmLines :
    \E r \in Run(Self, line, <<>>), now \in Now : Saving(r, now)

RunMove ==
  \E answers \in MoveAnswers :
    \E r \in Run(Self, MOVE, answers), now \in Now : Saving(r, now)

RunRemove ==
  \E line \in RemovePromptLines, answers \in RemoveAnswers :
    \E r \in Run(Self, line, answers), now \in Now : Saving(r, now)

RunOther ==
  \E line \in OtherLines :
    \E r \in Run(Self, line, <<>>), now \in Now : Saving(r, now)

\* The program is left with exit (cli.py 80-86: the board is saved as after
\* a command) and started again: main() builds a new Board from the file.
Restart ==
  \E now \in Now :
    LET saved == Persist(Self, now)
        b == LoadFromDict(saved)
    IN /\ columns' = b.columns
       /\ heap' = PadHeap(b.heap)
       /\ next_id' = b.next_id
       /\ tasks_dict' = saved

NextCLI ==
  \/ RunAdd
  \/ RunAddPrompt
  \/ RunMv
  \/ RunRm
  \/ RunMove
  \/ RunRemove
  \/ RunOther
  \/ Restart

SpecCLI == InitCLI /\ [][NextCLI]_vars

\* Any mapping a file can hold is loaded; the user then only looks at the
\* board (each turn saves) or starts the program again.
InitLoad == InitFile(LoadInputs)

NextLoad ==
  \/ RunOther
  \/ Restart

SpecLoad == InitLoad /\ [][NextLoad]_vars

\* ================================================================== claims
\* Every outcome a move call (by title, by id, by index) can have on the
\* current board, over all inputs.
MoveOutcomes ==
  UNION ({move_task(Self, t, ns) : t \in TitleInputs, ns \in StatusInputs}
         \cup {move_task_by_id(Self, id, ns) : id \in IdInputs, ns \in StatusInputs}
         \cup {move_task_by_index(Self, cs, n, ns) :
                 cs \in StatusInputs, n \in IndexInputs, ns \in StatusInputs})

\* Every outcome a remove call (by title, by id) can have on the current board.
RemoveOutcomes ==
  {remove_task(Self, t) : t \in TitleInputs}
  \cup {remove_task_by_id(Self, id) : id \in IdInputs}

\* C1: from an empty board or a load of records with pairwise distinct
\* integer ids, after any adds, moves and removes, no two task entries of the
\* board (across the three columns) carry the same id.
C1_UniqueIds ==
  \A i, j \in 1..Len(all_tasks) :
    i # j => heap[all_tasks[i]].id # heap[all_tasks[j]].id

\* A full board holding a task that was added (only add_task stamps
\* created_at with the last instant) and then moved into done.
C1_Witness ==
  /\ Len(all_tasks) = MaxTasks
  /\ \E o \in OnBoard : heap[o].created_at = MaxTime /\ heap[o].status = "done"

\* C2: every task on the board is listed in exactly one column, once, and
\* the key of that column is the task's status.
C2_OneColumnPerTask ==
  \A s \in StatusSet : \A i \in 1..Len(columns[s]) :
    /\ heap[columns[s][i]].status = s
    /\ \A s2 \in StatusSet : \A j \in 1..Len(columns[s2]) :
         columns[s2][j] = columns[s][i] => (s2 = s /\ j = i)

\* C3: whatever move is called on a reachable board, a task it takes from
\* todo or in-progress into done with no completion date has a non-empty one
\* afterwards, and a task it takes into todo or in-progress keeps the
\* completion date it had.
C3_StampOnDone ==
  \A r \in MoveOutcomes : \A o \in OnBoard :
    r.self.heap[o].status # heap[o].status =>
      IF r.self.heap[o].status = "done"
      THEN Falsy(heap[o].completion_date) => ~Falsy(r.self.heap[o].completion_date)
      ELSE r.self.heap[o].completion_date = heap[o].completion_date

\* A task in done whose completion date is an instant that only the clock
\* read of a move supplies.
C3_Witness ==
  \E o \in OnBoard : heap[o].status = "done" /\ heap[o].completion_date = MaxTime

\* An object that is on the board before and after the step (Reclaim keeps
\* every slot that is off the board free).
Stays(o) == heap[o] # FreeTask /\ heap'[o] # FreeTask

\* C4: a completion date, once set, keeps its value for as long as the task
\* is on the board, whatever operation runs.
C4_CompletionKept ==
  [][\A o \in Oids :
       (Stays(o) /\ ~Falsy(heap[o].completion_date)) =>
         heap'[o].completion_date = heap[o].completion_date]_vars

\* A task stamped by a move into done that a later move has taken out of
\* done, its stamp intact.
C4_Witness ==
  \E o \in OnBoard : heap[o].status # "done" /\ heap[o].completion_date = MaxTime

\* The task each move variant locates (0 if none).
LocatedByTitle(task_title) ==
  LET i == FirstByTitle(all_tasks, task_title, heap)
  IN IF i = 0 THEN 0 ELSE all_tasks[i]

LocatedById(task_id) ==
  LET i == FirstById(all_tasks, task_id, heap)
  IN IF i = 0 THEN 0 ELSE all_tasks[i]

LocatedByIndex(current_status, task_number) ==
  IF current_status \in StatusSet /\ task_number >= 1
     /\ task_number <= Len(columns[current_status])
  THEN columns[current_status][task_number] ELSE 0

\* The call can only return already-in-status, with the board as it is.
Noop(outcomes) == outcomes = {Return("already", Self)}

\* C5: on every reachable board, a move (by title, id or index) of a task to
\* the status it already has returns the already-in-status outcome and
\* leaves columns, tasks and nextId as they are.
C5_SameStatusNoop ==
  \A ns \in StatusSet :
    /\ \A t \in TitleInputs :
         (LocatedByTitle(t) # 0 /\ heap[LocatedByTitle(t)].status = ns)
           => Noop(move_task(Self, t, ns))
    /\ \A id \in IdInputs :
         (LocatedById(id) # 0 /\ heap[LocatedById(id)].status = ns)
           => Noop(move_task_by_id(Self, id, ns))
    /\ \A cs \in StatusSet, n \in IndexInputs :
         (LocatedByIndex(cs, n) # 0 /\ heap[LocatedByIndex(cs, n)].status = ns)
           => Noop(move_task_by_index(Self, cs, n, ns))

\* A full board with a task that a move stamped and put in done, and that
\* each of the three variants can locate and is asked to move into done.
C5_Witness ==
  /\ Len(all_tasks) = MaxTasks
  /\ \E t \in TitleInputs, id \in IdInputs, n \in IndexInputs :
       /\ LocatedByTitle(t) # 0
       /\ LocatedByTitle(t) = LocatedById(id)
       /\ LocatedById(id) = LocatedByIndex("done", n)
       /\ heap[LocatedByTitle(t)].status = "done"
       /\ heap[LocatedByTitle(t)].completion_date = MaxTime
       /\ Noop(move_task(Self, t, "done"))
       /\ Noop(move_task_by_id(Self, id, "done"))
       /\ Noop(move_task_by_index(Self, "done", n, "done"))

\* The board built from the exported record of this board.
Reloaded == LoadFromDict(Items(GetTasks(columns, heap)))

\* C6: a board built from the exported record has the same tasks in the same
\* order in each column, each with the same five fields.
C6_RoundTrip ==
  \A s \in StatusSet :
    ColumnTasks(Reloaded.columns, Reloaded.heap, s) = ColumnTasks(columns, heap, s)

\* The board after one renumber_sequential, and after a second one.
Once == renumber_sequential(Self).self

Twice == renumber_sequential(Once).self

\* C7: a second renumber_sequential right after a first changes no id and
\* leaves nextId as it is.
C7_RenumberIdempotent ==
  Twice.heap = Once.heap /\ Twice.next_id = Once.next_id

\* A full board, one task stamped by a move into done, on which the first
\* renumbering changes ids and the second changes none.
C7_Witness ==
  /\ Len(all_tasks) = MaxTasks
  /\ \E o \in OnBoard : heap[o].completion_date = MaxTime
  /\ Once.heap # heap
  /\ Twice.heap = Once.heap

\* C8: renumber_sequential on a board of N tasks leaves the ids 1..N, in
\* ascending order of (createdAt, old id), nextId = N + 1, and every column,
\* title, status and timestamp as it was.
C8_RenumberResult ==
  LET N == Cardinality(OnBoard)
  IN /\ {Once.heap[o].id : o \in OnBoard} = 1..N
     /\ Once.next_id = N + 1
     /\ \A o1, o2 \in OnBoard :
          KeyLess(SortKey(heap[o1]), SortKey(heap[o2])) => Once.heap[o1].id < Once.heap[o2].id
     /\ Once.columns = columns
     /\ \A o \in OnBoard : Once.heap[o] = [heap[o] EXCEPT !.id = Once.heap[o].id]

\* C9: nextId is greater than the id of every task on the board.
C9_NextIdAboveIds == \A o \in OnBoard : heap[o].id < next_id

\* A board whose only task was added with a fresh id after a load and has
\* outlived the loaded task.
C9_Witness ==
  /\ Len(all_tasks) = 1
  /\ heap[all_tasks[1]].id = MaxLoadId
  /\ heap[all_tasks[1]].created_at = MaxTime
  /\ next_id = MaxLoadId + 1

\* What a move or a remove returns when it does what it was asked.
Successes == {"moved", "removed"}

\* C10: on every reachable board, a move or remove call that returns
\* anything but moved / removed leaves the columns, every task and nextId
\* unchanged.
C10_RejectKeepsBoard ==
  \A r \in MoveOutcomes \cup RemoveOutcomes :
    r.result \notin Successes => r.self = Self

\* A full board, one task stamped by a move into done, on which a move by
\* title, a move by index and a remove by id find no task, and a move names
\* an unknown status.
C10_Witness ==
  /\ Len(all_tasks) = MaxTasks
  /\ \E o \in OnBoard : heap[o].completion_date = MaxTime
  /\ \E t \in TitleInputs : move_task(Self, t, "done") = {Return("not_found", Self)}
  /\ \E n \in IndexInputs :
       move_task_by_index(Self, "done", n, "todo") = {Return("not_found", Self)}
  /\ \E id \in IdInputs : remove_task_by_id(Self, id) = Return("not_found", Self)
  /\ \E t \in TitleInputs : move_task(Self, t, "bogus") = {Return("invalid_status", Self)}

\* C11: on every reachable board, a move (by title, by id or by index into a
\* known column) whose key matches no task returns the not-found outcome,
\* whatever new_status is, one of the three statuses or not.
C11_LookupFirst ==
  \A ns \in StatusInputs :
    /\ \A t \in TitleInputs :
         LocatedByTitle(t) = 0 => move_task(Self, t, ns) = {Return("not_found", Self)}
    /\ \A id \in IdInputs :
         LocatedById(id) = 0 => move_task_by_id(Self, id, ns) = {Return("not_found", Self)}
    /\ \A cs \in StatusSet, n \in IndexInputs :
         LocatedByIndex(cs, n) = 0
           => move_task_by_index(Self, cs, n, ns) = {Return("not_found", Self)}

\* The characters of a decorated string that show on screen.
Visible(s) ==
  LET Shown(c) == c \notin EscCodes
  IN SelectSeq(s, Shown)

\* C12: for every task on the board, every column width >= 1 and either
\* setting of the colours, each line _wrap_task returns has undecorated
\* length at most the width, unless it is the prefix or indent followed by a
\* single title word that is longer than the budget.
C12_LinesFit ==
  \A o \in OnBoard, w \in ColWidths, enable \in BOOLEAN :
    LET r == WrapTask(heap[o], w, enable)
        seg == TaskSegments(heap[o], enable)
        prefix_space == Len(seg.prefix_visible)
        budget == IF w - prefix_space > 1 THEN w - prefix_space ELSE 1
        words == Split(seg.title_text)
        LongWordAlone(line) ==
          \E k \in 1..Len(words) :
            /\ Len(words[k]) > budget
            /\ SubSeq(Visible(line), prefix_space + 1, Len(Visible(line))) = words[k]
    IN r.error = "none" =>
         \A i \in 1..Len(r.lines) :
           VisibleLen(r.lines[i]) <= w \/ LongWordAlone(r.lines[i])

\* The separator overhead of three columns.
SepTotal == Len(SEP) * (Len(STATUSES) - 1)

\* C13: for every board and every terminal width, the widths returned by
\* _compute_column_widths sum, with the separator overhead, to at most the
\* terminal width, or all three equal MIN_COL_WIDTH.
C13_WidthsFit ==
  \A tw \in TermWidths :
    LET widths == ComputeColumnWidths(Self, tw)
    IN \/ SumWidths(widths) + SepTotal <= tw
       \/ \A s \in StatusSet : widths[s] = MIN_COL_WIDTH

\* A board with two columns that want more than the floor: a terminal too
\* narrow for what they want but wide enough to leave one above the floor
\* after shrinking, and a terminal so narrow that all end at the floor.
C13_Witness ==
  /\ Cardinality({s \in StatusSet : Desired(Self, s) > MIN_COL_WIDTH}) >= 2
  /\ \E tw \in TermWidths :
       LET widths == ComputeColumnWidths(Self, tw)
       IN /\ Desired(Self, "todo") + Desired(Self, "in-progress")
               + Desired(Self, "done") + SepTotal > tw
          /\ SumWidths(widths) + SepTotal = tw
          /\ \E s \in StatusSet : widths[s] > MIN_COL_WIDTH
  /\ \E tw \in TermWidths :
       LET widths == ComputeColumnWidths(Self, tw)
       IN SumWidths(widths) + SepTotal > tw

\* C14: for every task on the board and every column width from
\* MIN_COL_WIDTH up, _wrap_task raises nothing and returns at least one line.
C14_WrapNeverFails ==
  \A o \in OnBoard, w \in MIN_COL_WIDTH..MaxColWidth, enable \in BOOLEAN :
    LET r == WrapTask(heap[o], w, enable)
    IN r.error = "none" /\ Len(r.lines) >= 1

\* ------------------------------------------------------------------ C15
\* The records of the mapping that belong in column s: those with a title
\* listed under key s, or under the legacy key doing for in-progress.
TitledUnder(entries, s) ==
  LET Belongs(r) == /\ r.title # TitleNone
                    /\ \/ r.key = s
                       \/ r.key = "doing" /\ s = "in-progress"
  IN SelectSeq(entries, Belongs)

\* C15: loading a mapping skips exactly its title-less records: every column
\* of the loaded board holds, in their original order, the titled records
\* listed under its key (the key doing counting as in-progress), each with
\* its title, dates and supplied id, and nothing else.
C15_LoadSkipsUntitled ==
  LET b == LoadFromDict(tasks_dict)
  IN \A s \in StatusSet :
       LET kept == TitledUnder(tasks_dict, s)
           col == b.columns[s]
       IN /\ Len(col) = Len(kept)
          /\ \A i \in 1..Len(col) :
               LET t == b.heap[col[i]]
               IN /\ t.title = kept[i].title
                  /\ t.status = s
                  /\ t.completion_date = kept[i].completion_date
                  /\ t.created_at = kept[i].created_at
                  /\ kept[i].id # NoId => t.id = kept[i].id

\* A freshly loaded board whose mapping listed a titled record under doing
\* and a title-less record under todo: only the first is on the board.
C15_Witness ==
  /\ Len(tasks_dict) = 2
  /\ \E i, j \in 1..2 :
       /\ tasks_dict[i].key = "doing" /\ tasks_dict[i].title # TitleNone
       /\ tasks_dict[j].key = "todo" /\ tasks_dict[j].title = TitleNone
  /\ columns = LoadFromDict(tasks_dict).columns
  /\ Len(columns["in-progress"]) = 1
  /\ Len(all_tasks) = 1

\* ------------------------------------------------------------------ C16
\* The records of the mapping that the load takes: titled, under a known key.
Taken(entries) ==
  LET Loads(r) == r.title # TitleNone /\ MappedStatus(r.key) \in StatusSet
  IN SelectSeq(entries, Loads)

\* C16: when the ids supplied in the mapping are pairwise distinct and some
\* record has none, every record with an id keeps it and the ids of the
\* loaded board are pairwise distinct.
C16_FreshIdsDistinct ==
  LET taken == Taken(tasks_dict)
      b == LoadFromDict(tasks_dict)
      n == Len(taken)
  IN (/\ \A i, j \in 1..n :
          (i # j /\ taken[i].id # NoId /\ taken[j].id # NoId)
            => taken[i].id # taken[j].id
      /\ \E i \in 1..n : taken[i].id = NoId)
     => /\ Len(b.heap) = n
        /\ \A i \in 1..n : taken[i].id # NoId => b.heap[i].id = taken[i].id
        /\ \A i, j \in 1..n : i # j => b.heap[i].id # b.heap[j].id

\* ------------------------------------------------------------------ C17
\* C17: on every board with room for another task, an add command whose
\* title, given inline or at the prompt, is empty or only blanks is answered
\* with "Title required." and nothing else: the columns, the tasks and
\* next_id are as before.
C17_BlankTitleRejected ==
  \A line \in AddLines \cup {ADD}, typed \in TypedTitles :
    (CanAdd /\ Strip(EnteredTitle(Strip(line), typed)) = <<>>)
      => Run(Self, line, <<typed>>) = {Return("title_required", Self)}

\* A board holding a task the add command stamped, with room for another:
\* a blank title at the prompt is rejected, a title of one letter is added.
C17_Witness ==
  /\ CanAdd
  /\ \E o \in OnBoard : heap[o].created_at = MaxTime /\ heap[o].status = "todo"
  /\ Run(Self, ADD, <<<<" ">>>>) = {Return("title_required", Self)}
  /\ \E r \in Run(Self, ADD, <<<<"a">>>>) :
       r.result = "none" /\ Len(r.self.columns["todo"]) = Len(columns["todo"]) + 1

\* ------------------------------------------------------------------ C18
\* A turn of the command loop: a command is handled and the board is saved.
CommandTurn ==
  RunAdd \/ RunAddPrompt \/ RunMv \/ RunRm \/ RunMove \/ RunRemove \/ RunOther

\* C18: after every turn of the command loop the board the loop goes on with
\* exports exactly the record that was just saved: the same tasks, in the
\* same columns, with the same ids.
C18_BoardIsWhatWasSaved ==
  [][CommandTurn => Items(GetTasks(columns', heap')) = tasks_dict']_vars

\* ------------------------------------------------------------------ C19
\* Every outcome an add call can have on the current board, when it has room.
AddOutcomes ==
  IF CanAdd
  THEN UNION {add_task(Self, t, ca) : t \in TitleInputs, ca \in CreatedInputs}
  ELSE {}

\* No add, move or remove call on the current board lowers next_id.
NextIdGrows ==
  \A r \in AddOutcomes \cup MoveOutcomes \cup RemoveOutcomes :
    r.self.next_id >= next_id

\* The board built from the exported record has next_id one past the largest
\* id on the board.
ReloadedOnePastMax ==
  OnBoard # {} => Reloaded.next_id = MaxOf({heap[o].id : o \in OnBoard}) + 1

\* C19 as stated: next_id never decreases across add, move and remove, and
\* after load(export(board)) the new board's next_id is one past the largest
\* id present and not lower than the original board's next_id.
C19_NextIdNeverDecreases ==
  /\ NextIdGrows
  /\ ReloadedOnePastMax
  /\ Reloaded.next_id >= next_id

\* C19 as amended: next_id never decreases across add, move and remove; after
\* load(export(board)) the new board's next_id is one past the largest id
\* present, 1 for an empty board, and never higher than the original board's
\* next_id.
C19_NextIdGrowsUntilReload ==
  /\ NextIdGrows
  /\ ReloadedOnePastMax
  /\ OnBoard = {} => Reloaded.next_id = 1
  /\ Reloaded.next_id <= next_id

\* A board left with the task of id 1 after the task with the highest id was
\* removed: next_id has stayed above the removed id, and the reloaded board
\* starts again right after id 1.
C19_Witness ==
  /\ Len(all_tasks) = 1
  /\ heap[all_tasks[1]].id = 1
  /\ next_id = MaxNextId
  /\ next_id > 2
  /\ Reloaded.next_id = 2

\* ------------------------------------------------------------------ C20
\* C20: whatever move is called on a reachable board, if it returns moved
\* then one task t has gone from its column A to another column B: t is the
\* last element of B behind the tasks B had, A has lost t and nothing else
\* and keeps its order, the third column is as before, no task has changed
\* id, title or created_at, and no task but t has changed status or
\* completion date.
C20_MoveFrame ==
  \A r \in MoveOutcomes :
    r.result = "moved" =>
      \E t \in OnBoard :
        LET A == heap[t].status
            B == r.self.heap[t].status
            NotT(x) == x # t
        IN /\ A # B
           /\ r.self.columns[B] = Append(columns[B], t)
           /\ r.self.columns[A] = SelectSeq(columns[A], NotT)
           /\ Len(r.self.columns[A]) = Len(columns[A]) - 1
           /\ \A s \in StatusSet \ {A, B} : r.self.columns[s] = columns[s]
           /\ \A o \in OnBoard :
                /\ r.self.heap[o].id = heap[o].id
                /\ r.self.heap[o].title = heap[o].title
                /\ r.self.heap[o].created_at = heap[o].created_at
           /\ \A o \in OnBoard \ {t} :
                /\ r.self.heap[o].status = heap[o].status
                /\ r.self.heap[o].completion_date = heap[o].completion_date

\* ------------------------------------------------------------------ C21
\* The remove call that returned r took out the first entry, in the scan
\* order todo, in-progress, done and top to bottom, that refers to a task of
\* matching, and nothing else; with no such entry it found nothing.
TookFirstMatch(r, matching) ==
  IF OnBoard \cap matching = {} THEN r = Return("not_found", Self)
  ELSE
    \E k \in 1..Len(STATUSES) :
      LET s == STATUSES[k]
      IN \E j \in 1..Len(columns[s]) :
           /\ columns[s][j] \in matching
           /\ \A j2 \in 1..(j - 1) : columns[s][j2] \notin matching
           /\ \A k2 \in 1..(k - 1) : \A j2 \in 1..Len(columns[STATUSES[k2]]) :
                columns[STATUSES[k2]][j2] \notin matching
           /\ r = Return("removed", [Self EXCEPT !.columns[s] = RemoveAt(@, j)])

\* C21: on every reachable board, remove by title and remove by id take out
\* exactly one entry, the first match in the scan order; every other entry,
\* other matches among them, keeps its column and its place, and no task
\* changes.
C21_RemovesFirstMatch ==
  /\ \A t \in TitleInputs :
       TookFirstMatch(remove_task(Self, t), {o \in Oids : heap[o].title = t})
  /\ \A id \in IdInputs :
       TookFirstMatch(remove_task_by_id(Self, id), {o \in Oids : heap[o].id = id})

\* A board with two tasks of one title in different columns, the one in done
\* stamped by a move: the remove by title takes the one in the earlier column
\* and leaves the one in done.
C21_Witness ==
  /\ Len(columns["done"]) = 1
  /\ Len(all_tasks) = MaxTasks
  /\ heap[columns["done"][1]].completion_date = MaxTime
  /\ \E t \in TitleInputs :
       /\ \A o \in OnBoard : heap[o].title = t
       /\ remove_task(Self, t).result = "removed"
       /\ remove_task(Self, t).self.columns["done"] = columns["done"]
       /\ Len(AllTasksOf(remove_task(Self, t).self.columns)) = MaxTasks - 1

\* ------------------------------------------------------------------ C22
\* What the three columns would like together, separators included.
DesiredTotal == SumWidths([s \in StatusSet |-> Desired(Self, s)]) + SepTotal

\* C22: for every board and every terminal width that the desired widths and
\* the separators do not exceed, the widths returned sum with the separators
\* to the terminal width exactly, and with surplus e the k-th column in the
\* order todo, in-progress, done has its desired width plus e \div 3, plus
\* one more when k <= e % 3.
C22_SurplusRoundRobin ==
  \A tw \in TermWidths :
    DesiredTotal <= tw =>
      LET widths == ComputeColumnWidths(Self, tw)
          e == tw - DesiredTotal
          n == Len(STATUSES)
      IN /\ SumWidths(widths) + SepTotal = tw
         /\ \A k \in 1..n :
              widths[STATUSES[k]] =
                Desired(Self, STATUSES[k]) + (e \div n) + (IF k <= e % n THEN 1 ELSE 0)

\* A board whose done column wants more than the floor because of a stamped
\* task, shown in terminals that leave a surplus of one, of two and of a
\* multiple of three: the first column alone, or the first two, get the odd
\* unit.
C22_Witness ==
  /\ Desired(Self, "done") > MIN_COL_WIDTH
  /\ \E o \in OnBoard : heap[o].status = "done" /\ heap[o].completion_date = MaxTime
  /\ \A m \in 0..2 :
       \E tw \in TermWidths :
         LET widths == ComputeColumnWidths(Self, tw)
         IN /\ tw > DesiredTotal + 2
            /\ (tw - DesiredTotal) % 3 = m
            /\ widths["todo"] - Desired(Self, "todo")
                 = widths["done"] - Desired(Self, "done") + (IF m = 0 THEN 0 ELSE 1)
            /\ widths["done"] > Desired(Self, "done")

\* ------------------------------------------------------------------ C23
\* All three columns are at the floor.
AtFloor(widths) == \A s \in StatusSet : widths[s] = MIN_COL_WIDTH

\* widths with one taken from its widest column, the first in the order todo,
\* in-progress, done when several are widest.
OneShrinkStep(widths) ==
  LET k == CHOOSE k \in 1..Len(STATUSES) :
             /\ \A j \in 1..Len(STATUSES) : widths[STATUSES[j]] <= widths[STATUSES[k]]
             /\ \A j \in 1..(k - 1) : widths[STATUSES[j]] < widths[STATUSES[k]]
  IN [widths EXCEPT ![STATUSES[k]] = @ - 1]

\* The terminal widths at which shrinking differs: from just below the total
\* of three columns at the floor up to the widest terminal.  In every narrower
\* terminal the target is the floor total, as it is in the narrowest of these.
ShrinkWidths == (Len(STATUSES) * MIN_COL_WIDTH + SepTotal - 2)..MaxTermWidth

\* C23: for every board and every terminal width that the desired widths and
\* the separators exceed, no returned width is below MIN_COL_WIDTH or above
\* the desired one; the total equals the terminal width exactly unless all
\* three columns are at the floor; and the result for a terminal one unit
\* narrower is the result for this terminal after one more shrink step on the
\* first of its widest columns, or the same result once all are at the floor.
C23_ShrinkWidestFirst ==
  \A tw \in ShrinkWidths :
    DesiredTotal > tw =>
      LET widths == ComputeColumnWidths(Self, tw)
          narrower == ComputeColumnWidths(Self, tw - 1)
      IN /\ \A s \in StatusSet :
              MIN_COL_WIDTH <= widths[s] /\ widths[s] <= Desired(Self, s)
         /\ SumWidths(widths) + SepTotal = tw \/ AtFloor(widths)
         /\ narrower = IF AtFloor(widths) THEN widths ELSE OneShrinkStep(widths)

\* A board with two columns that want more than the floor: at some terminal
\* width two columns tie for the widest above the floor and the narrower
\* terminal takes the unit from the first of them; at another all three end
\* at the floor with a total above the terminal width.
C23_Witness ==
  /\ \E tw \in ShrinkWidths :
       LET widths == ComputeColumnWidths(Self, tw)
       IN /\ DesiredTotal > tw
          /\ \E s1, s2 \in StatusSet :
               /\ s1 # s2
               /\ widths[s1] = widths[s2]
               /\ widths[s1] > MIN_COL_WIDTH
               /\ \A s \in StatusSet : widths[s] <= widths[s1]
          /\ ComputeColumnWidths(Self, tw - 1) = OneShrinkStep(widths)
  /\ \E tw \in ShrinkWidths :
       LET widths == ComputeColumnWidths(Self, tw)
       IN AtFloor(widths) /\ SumWidths(widths) + SepTotal > tw

\* ------------------------------------------------------------------ C24
\* C24: for every task on the board and every column width from
\* MIN_COL_WIDTH up, when _wrap_task returns: a done task with a completion
\* date has its suffix at the end of the last title line exactly when that
\* line and the suffix fit the budget (column width minus prefix length), and
\* otherwise on one extra line behind the indent, without its leading blank;
\* any other task has the lines of its title and no suffix.
C24_SuffixPlacement ==
  \A o \in OnBoard, w \in MIN_COL_WIDTH..MaxColWidth :
    LET task == heap[o]
        r == WrapTask(task, w, FALSE)
        bare == WrapTask([task EXCEPT !.completion_date = None], w, FALSE).lines
        prefix_space == Len(IntToStr(task.id)) + 2
        budget == w - prefix_space
        suffix == DoneSuffix(BeforeFirst(IsoFormat(task.completion_date), "T"))
        last == bare[Len(bare)]
    IN r.error = "none" =>
         IF task.status = "done" /\ ~Falsy(task.completion_date)
         THEN IF (Len(last) - prefix_space) + Len(suffix) <= budget
              THEN r.lines = [bare EXCEPT ![Len(bare)] = last \o suffix]
              ELSE r.lines = Append(bare, Rep(" ", prefix_space) \o Strip(suffix))
         ELSE r.lines = bare

\* ------------------------------------------------------------------ C25
\* The ids of the records of a saved mapping are 1..N, each once.
IdsSequential(saved) ==
  /\ {saved[i].id : i \in 1..Len(saved)} = 1..Len(saved)
  /\ \A i, j \in 1..Len(saved) : i # j => saved[i].id # saved[j].id

\* C25: every step of the command loop saves (a command turn, and exit
\* before the program is started again); whatever the command and whatever
\* the board it found, the record saved has ids that are exactly 1..N for
\* its N tasks, without gap or duplicate.
C25_SavedIdsSequential ==
  [][IdsSequential(tasks_dict')]_vars

\* After an add and the removal of a task with a lower id the board holds one
\* task, stamped by the add, with an id above 1; the record saved for it lists
\* that task with id 1.
C25_Witness ==
  /\ Len(all_tasks) = 1
  /\ heap[all_tasks[1]].id > 1
  /\ heap[all_tasks[1]].created_at = MaxTime
  /\ Len(tasks_dict) = 1
  /\ tasks_dict[1].id = 1
  /\ tasks_dict[1].title = heap[all_tasks[1]].title
  /\ tasks_dict[1].created_at = MaxTime

\* ------------------------------------------------------------------ C26
\* C26: on a board that started empty, after any adds, moves, removes and
\* renumberings, every task in the done column has a completion date set.
C26_DoneHasCompletionDate ==
  \A i \in 1..Len(columns["done"]) : ~Falsy(heap[columns["done"][i]].completion_date)

\* A full done column: the task added second was moved there first and
\* stamped at the first instant, the task added first was moved there behind
\* it and stamped at the last instant.
C26_Witness ==
  /\ Len(columns["done"]) = MaxTasks
  /\ heap[columns["done"][1]].completion_date = 1
  /\ heap[columns["done"][2]].completion_date = MaxTime
  /\ heap[columns["done"][1]].id > heap[columns["done"][2]].id

=========================================================================
